---- MODULE Spec2Model ----
(***************************************************************************)
(* Model of src/src/yolo_train.py: the epoch loop of train(), the          *)
(* checkpoint helper save_params() and the manifest loader                 *)
(* GroundTruthDataset.__init__.                                            *)
(*                                                                         *)
(* Two state machines share the module.  Spec is train(): its inputs are   *)
(* the parsed arguments and the number of batches the training loader      *)
(* yields per epoch; validate() is a framework call whose result (the      *)
(* mAP) is an input chosen at every call.  SpecData is the construction    *)
(* of one GroundTruthDataset from the text of a manifest file.             *)
(*                                                                         *)
(* mAP values are the rationals m / MaxMap for m in 0 .. MaxMap, stored as *)
(* the numerator m.  Interval arguments are taken from the integers for    *)
(* which line 397 and line 213 are defined: val_interval >= 1 (line 397    *)
(* divides by it unguarded), save_interval >= 0 (line 213 guards zero).    *)
(***************************************************************************)
EXTENDS Integers, Sequences, FiniteSets, TLC

\* ---------------------------------------------------------------- bounds
MaxEpochs == 3
MaxInterval == 2
MaxBatches == 2
MaxMap == 1
MaxLines == 3
MaxBoxes == 2

VARIABLES
    args,           \* the argparse namespace fields train() reads
    train_len,      \* number of batches train_data yields in one epoch
    pc,             \* position of train() in its code
    epoch,          \* loop variable of line 339
    i,              \* batch index of line 356
    mixup_setting,  \* what the training dataset's set_mixup was last given
    best_map,       \* best_map[0]
    current_map,    \* current_map of lines 406/410/414
    net,            \* version of the network parameters: trainer.step calls so far
    best_file,      \* content of <prefix>_best.params: {} while the file does not exist
    best_log,       \* lines appended to <prefix>_best_map.log
    epoch_files,    \* the epoch-numbered files <prefix>_<epoch>_<mAP>.params
    calls,          \* the calls train() has made, in order
    manifest,       \* characters of the manifest file
    manifest_records, \* the records the manifest file was written from
    lines,          \* result of f.readlines()
    k,              \* index of the line the loop of line 135 is at
    image_info,     \* self.image_info
    ds_pc           \* position of GroundTruthDataset.__init__

trainVars == <<args, train_len, pc, epoch, i, mixup_setting, best_map, current_map,
               net, best_file, best_log, epoch_files, calls>>
dataVars == <<manifest, manifest_records, lines, k, image_info, ds_pc>>
vars == <<args, train_len, pc, epoch, i, mixup_setting, best_map, current_map,
          net, best_file, best_log, epoch_files, calls,
          manifest, manifest_records, lines, k, image_info, ds_pc>>

\* ------------------------------------------------------ train(): helpers

Maps == 0 .. MaxMap

Args ==
    [start_epoch : 0 .. MaxEpochs,
     epochs : 0 .. MaxEpochs,
     val_interval : 1 .. MaxInterval,
     save_interval : 0 .. MaxInterval,
     mixup : BOOLEAN,
     no_mixup_epochs : 0 .. MaxEpochs]

\* One entry of the call log.
Call(op, e, b, m, s) == [op |-> op, epoch |-> e, batch |-> b, map |-> m, setting |-> s]

\* the range taken to include its end
InRange_Inclusive(e) == e <= args.epochs

\* range(args.start_epoch, args.epochs), line 339: is e still inside the range
InRange(e) == e < args.epochs

\* mixup switched off one epoch late
MixupOff_Late(e) == e > args.epochs - args.no_mixup_epochs

\* line 346
MixupOff(e) == e >= args.epochs - args.no_mixup_epochs

\* the period counted from epoch instead of epoch + 1
ValDue_OffByOne(e) == e % args.val_interval = 0

\* line 397: not (epoch + 1) % args.val_interval
ValDue(e) == (e + 1) % args.val_interval = 0

\* line 414
NoValMap == 0

\* line 208
IsBetter(cur, best) == cur > best

\* the period counted from epoch + 1 instead of epoch
SaveDue_OffByOne(e) ==
    IF args.save_interval = 0 THEN FALSE ELSE (e + 1) % args.save_interval = 0

\* line 213: save_interval and epoch % save_interval == 0
SaveDue(e) ==
    IF args.save_interval = 0 THEN FALSE ELSE e % args.save_interval = 0

\* trainer.step taken before the backward pass
AfterForward_StepFirst == "step"

\* lines 368-381: the order of the statements of one batch
AfterForward == "backward"
AfterBackward == "step"
AfterStep == "metrics"

\* ------------------------------------------------------ train(): actions

InitTrain ==
    /\ args \in Args
    /\ (~args.mixup => args.no_mixup_epochs = 0)  \* read only under args.mixup
    /\ train_len \in 0 .. MaxBatches
    /\ pc = "for_epoch"
    /\ epoch = args.start_epoch
    /\ i = 0
    /\ mixup_setting = "unset"
    /\ best_map = 0
    /\ current_map = 0
    /\ net = 0
    /\ best_file = {}
    /\ best_log = <<>>
    /\ epoch_files = {}
    /\ calls = <<>>

\* line 339, range not exhausted
EnterEpoch ==
    /\ UNCHANGED dataVars
    /\ pc = "for_epoch"
    /\ InRange(epoch)
    /\ pc' = IF args.mixup THEN "mixup" ELSE "for_batch"
    /\ i' = 0
    /\ calls' = Append(calls, Call("epoch", epoch, 0, 0, mixup_setting))
    /\ UNCHANGED <<args, train_len, epoch, mixup_setting, best_map, current_map,
                   net, best_file, best_log, epoch_files>>

\* line 339, range exhausted: train() returns
ExitLoop ==
    /\ UNCHANGED dataVars
    /\ pc = "for_epoch"
    /\ ~InRange(epoch)
    /\ pc' = "done"
    /\ UNCHANGED <<args, train_len, epoch, i, mixup_setting, best_map, current_map,
                   net, best_file, best_log, epoch_files, calls>>

\* lines 342-345
SetMixupBeta ==
    /\ UNCHANGED dataVars
    /\ pc = "mixup"
    /\ mixup_setting' = "beta"
    /\ calls' = Append(calls, Call("set_mixup", epoch, 0, 0, "beta"))
    /\ pc' = IF MixupOff(epoch) THEN "mixup_off" ELSE "for_batch"
    /\ UNCHANGED <<args, train_len, epoch, i, best_map, current_map,
                   net, best_file, best_log, epoch_files>>

\* lines 347-350
SetMixupNone ==
    /\ UNCHANGED dataVars
    /\ pc = "mixup_off"
    /\ mixup_setting' = "none"
    /\ calls' = Append(calls, Call("set_mixup", epoch, 0, 0, "none"))
    /\ pc' = "for_batch"
    /\ UNCHANGED <<args, train_len, epoch, i, best_map, current_map,
                   net, best_file, best_log, epoch_files>>

\* line 356, the loader yields batch i (built under the current mixup setting)
NextBatch ==
    /\ UNCHANGED dataVars
    /\ pc = "for_batch"
    /\ i < train_len
    /\ calls' = Append(calls, Call("batch", epoch, i, 0, mixup_setting))
    /\ pc' = "forward"
    /\ UNCHANGED <<args, train_len, epoch, i, mixup_setting, best_map, current_map,
                   net, best_file, best_log, epoch_files>>

\* line 356, the loader is exhausted
EndBatches ==
    /\ UNCHANGED dataVars
    /\ pc = "for_batch"
    /\ i >= train_len
    /\ pc' = "val_check"
    /\ UNCHANGED <<args, train_len, epoch, i, mixup_setting, best_map, current_map,
                   net, best_file, best_log, epoch_files, calls>>

\* lines 369-375
Forward ==
    /\ UNCHANGED dataVars
    /\ pc = "forward"
    /\ calls' = Append(calls, Call("forward", epoch, i, 0, mixup_setting))
    /\ pc' = AfterForward
    /\ UNCHANGED <<args, train_len, epoch, i, mixup_setting, best_map, current_map,
                   net, best_file, best_log, epoch_files>>

\* line 376
Backward ==
    /\ UNCHANGED dataVars
    /\ pc = "backward"
    /\ calls' = Append(calls, Call("backward", epoch, i, 0, mixup_setting))
    /\ pc' = AfterBackward
    /\ UNCHANGED <<args, train_len, epoch, i, mixup_setting, best_map, current_map,
                   net, best_file, best_log, epoch_files>>

\* line 377
TrainerStep ==
    /\ UNCHANGED dataVars
    /\ pc = "step"
    /\ net' = net + 1
    /\ calls' = Append(calls, Call("step", epoch, i, 0, mixup_setting))
    /\ pc' = AfterStep
    /\ UNCHANGED <<args, train_len, epoch, i, mixup_setting, best_map, current_map,
                   best_file, best_log, epoch_files>>

\* lines 378-381, and the loop's increment of i
UpdateMetrics ==
    /\ UNCHANGED dataVars
    /\ pc = "metrics"
    /\ calls' = Append(calls, Call("metrics", epoch, i, 0, mixup_setting))
    /\ i' = i + 1
    /\ pc' = "for_batch"
    /\ UNCHANGED <<args, train_len, epoch, mixup_setting, best_map, current_map,
                   net, best_file, best_log, epoch_files>>

\* lines 397-411: validation is due; validate() returns some mAP
Validate ==
    /\ UNCHANGED dataVars
    /\ pc = "val_check"
    /\ ValDue(epoch)
    /\ \E m \in Maps :
        /\ current_map' = m
        /\ calls' = Append(calls, Call("validate", epoch, i, m, mixup_setting))
    /\ pc' = "save"
    /\ UNCHANGED <<args, train_len, epoch, i, mixup_setting, best_map,
                   net, best_file, best_log, epoch_files>>

\* lines 397, 413-414
SkipValidate ==
    /\ UNCHANGED dataVars
    /\ pc = "val_check"
    /\ ~ValDue(epoch)
    /\ current_map' = NoValMap
    /\ pc' = "save"
    /\ UNCHANGED <<args, train_len, epoch, i, mixup_setting, best_map,
                   net, best_file, best_log, epoch_files, calls>>

\* line 415 with the whole of save_params, lines 206-214, and the loop's next epoch
SaveParams ==
    /\ UNCHANGED dataVars
    /\ pc = "save"
    /\ calls' = Append(calls, Call("save_params", epoch, i, current_map, mixup_setting))
    /\ IF IsBetter(current_map, best_map)
          THEN /\ best_map' = current_map
               /\ best_file' = {[epoch |-> epoch, map |-> current_map, net |-> net]}
               /\ best_log' = Append(best_log, [epoch |-> epoch, map |-> current_map])
          ELSE UNCHANGED <<best_map, best_file, best_log>>
    /\ IF SaveDue(epoch)
          THEN epoch_files' = epoch_files \cup
                   {[epoch |-> epoch, map |-> current_map, net |-> net]}
          ELSE UNCHANGED epoch_files
    /\ epoch' = epoch + 1
    /\ pc' = "for_epoch"
    /\ UNCHANGED <<args, train_len, i, mixup_setting, current_map, net>>

Next ==
    \/ EnterEpoch
    \/ ExitLoop
    \/ SetMixupBeta
    \/ SetMixupNone
    \/ NextBatch
    \/ EndBatches
    \/ Forward
    \/ Backward
    \/ TrainerStep
    \/ UpdateMetrics
    \/ Validate
    \/ SkipValidate
    \/ SaveParams

\* ------------------------------------- GroundTruthDataset: the manifest

NL == "\n"
SP == " "
LBrace == "{"
RBrace == "}"
Box == "b"      \* one entry of the 'annotations' list of a record

\* characters json.loads skips around a document
Whitespace == {SP, NL}

RECURSIVE Boxes(_)
Boxes(n) == IF n = 0 THEN <<>> ELSE <<Box>> \o Boxes(n - 1)

\* A record as the labeling service writes it on one line: a JSON object
\* holding n annotations, optionally followed by a blank.
RecordKinds == [n : 0 .. MaxBoxes, blank : BOOLEAN]
RecordText(r) ==
    <<LBrace>> \o Boxes(r.n) \o <<RBrace>> \o (IF r.blank THEN <<SP>> ELSE <<>>)

\* The text of a manifest of the records recs, one per line; the final line
\* ends with a newline iff final_nl.
RECURSIVE ManifestText(_, _)
ManifestText(recs, final_nl) ==
    IF recs = <<>> THEN <<>>
    ELSE IF Len(recs) = 1
         THEN RecordText(recs[1]) \o (IF final_nl THEN <<NL>> ELSE <<>>)
         ELSE RecordText(recs[1]) \o <<NL>> \o ManifestText(Tail(recs), final_nl)

RecordSeqs == UNION {[1 .. n -> RecordKinds] : n \in 0 .. MaxLines}

\* f.readlines(), line 134: the lines of text, each with its newline kept
RECURSIVE ReadLines(_, _)
ReadLines(text, cur) ==
    IF text = <<>> THEN (IF cur = <<>> THEN <<>> ELSE <<cur>>)
    ELSE IF Head(text) = NL
         THEN <<Append(cur, NL)>> \o ReadLines(Tail(text), <<>>)
         ELSE ReadLines(Tail(text), Append(cur, Head(text)))

\* line[:-1], line 136
DropLast(line) == SubSeq(line, 1, Len(line) - 1)

RECURSIVE LStrip(_)
LStrip(t) == IF t # <<>> /\ Head(t) \in Whitespace THEN LStrip(Tail(t)) ELSE t

RECURSIVE RStrip(_)
RStrip(t) ==
    IF t # <<>> /\ t[Len(t)] \in Whitespace THEN RStrip(SubSeq(t, 1, Len(t) - 1)) ELSE t

\* json.loads, line 136: the parsed object (its number of annotations), or
\* ok = FALSE where json.loads raises JSONDecodeError
JsonLoads(t) ==
    LET d == RStrip(LStrip(t)) IN
    IF /\ Len(d) >= 2
       /\ d[1] = LBrace
       /\ d[Len(d)] = RBrace
       /\ \A j \in 2 .. Len(d) - 1 : d[j] = Box
    THEN [ok |-> TRUE, annotations |-> Len(d) - 2]
    ELSE [ok |-> FALSE, annotations |-> 0]

\* line 137: len(info[field_name]['annotations'])
HasAnnotations(info) == info.annotations # 0

InitData ==
    /\ manifest_records \in RecordSeqs
    /\ \E final_nl \in BOOLEAN : manifest = ManifestText(manifest_records, final_nl)
    /\ lines = <<>>
    /\ k = 1
    /\ image_info = <<>>
    /\ ds_pc = "open"

\* lines 129-134
OpenManifest ==
    /\ UNCHANGED trainVars
    /\ ds_pc = "open"
    /\ lines' = ReadLines(manifest, <<>>)
    /\ k' = 1
    /\ image_info' = <<>>
    /\ ds_pc' = "for_line"
    /\ UNCHANGED <<manifest, manifest_records>>

\* lines 135-138, one iteration
LoadLine ==
    /\ UNCHANGED trainVars
    /\ ds_pc = "for_line"
    /\ k <= Len(lines)
    /\ LET info == JsonLoads(DropLast(lines[k])) IN
        IF ~info.ok
        THEN /\ ds_pc' = "raised"
             /\ UNCHANGED <<k, image_info>>
        ELSE /\ image_info' = IF HasAnnotations(info)
                                 THEN Append(image_info, info)
                                 ELSE image_info
             /\ k' = k + 1
             /\ UNCHANGED ds_pc
    /\ UNCHANGED <<manifest, manifest_records, lines>>

\* line 135, the lines are exhausted: __init__ returns
FinishLoad ==
    /\ UNCHANGED trainVars
    /\ ds_pc = "for_line"
    /\ k > Len(lines)
    /\ ds_pc' = "done"
    /\ UNCHANGED <<manifest, manifest_records, lines, k, image_info>>

\* __len__, lines 167-168
DatasetLen == Len(image_info)

\* __getitem__, lines 159-165: the number of rows of the label array of item idx
LabelRows(idx) == image_info[idx].annotations

DataNext ==
    \/ OpenManifest
    \/ LoadLine
    \/ FinishLoad

\* ---------------------------------------------------------- specifications

\* train() on a dataset that is not being constructed
DataIdle ==
    /\ manifest = <<>>
    /\ manifest_records = <<>>
    /\ lines = <<>>
    /\ k = 1
    /\ image_info = <<>>
    /\ ds_pc = "done"

\* the dataset is constructed before train() is called
TrainIdle ==
    /\ args = [start_epoch |-> 0, epochs |-> 1, val_interval |-> 1,
               save_interval |-> 0, mixup |-> FALSE, no_mixup_epochs |-> 0]
    /\ train_len = 0
    /\ pc = "not_called"
    /\ epoch = 0
    /\ i = 0
    /\ mixup_setting = "unset"
    /\ best_map = 0
    /\ current_map = 0
    /\ net = 0
    /\ best_file = {}
    /\ best_log = <<>>
    /\ epoch_files = {}
    /\ calls = <<>>

Init == InitTrain /\ DataIdle
Spec == Init /\ [][Next]_vars

\* train() is sequential code: whatever statement it is at is executed
FairSpec == Spec /\ WF_vars(Next)

DataInit == InitData /\ TrainIdle
SpecData == DataInit /\ [][DataNext]_vars

\* ------------------------------------------------- reading the call log

Idx == 1 .. Len(calls)
CallsOf(op) == {j \in Idx : calls[j].op = op}
CallsIn(op, e) == {j \in Idx : calls[j].op = op /\ calls[j].epoch = e}

\* the epochs whose body was entered, in the order they were entered
EpochsRun ==
    LET entered == SelectSeq(calls, LAMBDA c : c.op = "epoch")
    IN  [j \in 1 .. Len(entered) |-> entered[j].epoch]

Started == {calls[j].epoch : j \in CallsOf("epoch")}

\* the epochs whose body has run to its end (save_params has returned)
Completed == {calls[j].epoch : j \in CallsOf("save_params")}

\* the epochs for which line 397 has been decided
Decided == {e \in Started : e < epoch \/ pc = "save"}

\* <<a, a + 1, ..., b - 1>>
RangeSeq(a, b) == [j \in 1 .. (IF b > a THEN b - a ELSE 0) |-> a + j - 1]

IsPrefix(s, t) == Len(s) <= Len(t) /\ \A j \in 1 .. Len(s) : s[j] = t[j]

BatchOps == {"batch", "forward", "backward", "step", "metrics"}

\* ------------------------------------------------------------------ claims

\* C1: after at least one completed epoch the best checkpoint exists and holds
\* the parameters of a completed epoch whose mAP is the maximum over all
\* completed epochs.
C1_BestAlwaysSaved ==
    Completed # {} =>
        /\ best_file # {}
        /\ \A f \in best_file :
            /\ \E j \in CallsOf("save_params") :
                   calls[j].epoch = f.epoch /\ calls[j].map = f.map
            /\ \A j \in CallsOf("save_params") : calls[j].map <= f.map

\* C2: validate() is called at the end of epoch e iff (e + 1) is a multiple of
\* val_interval, at most once per epoch, and an epoch without validation takes
\* its current mAP to be 0.
C2_ValidationPeriodic ==
    /\ \A e \in Decided :
           (CallsIn("validate", e) # {}) <=> ((e + 1) % args.val_interval = 0)
    /\ \A e \in Started : Cardinality(CallsIn("validate", e)) <= 1
    /\ \A j \in CallsOf("validate") : calls[j].epoch \in Decided
    /\ (pc = "save" /\ CallsIn("validate", epoch) = {}) => current_map = 0
    /\ \A j \in CallsOf("save_params") :
           CallsIn("validate", calls[j].epoch) = {} => calls[j].map = 0

C2_Witness ==
    /\ pc = "done"
    /\ \E e \in Completed : CallsIn("validate", e) # {}
    /\ \E e \in Completed : CallsIn("validate", e) = {}

\* C3: at the end of every epoch e an epoch-numbered checkpoint is written iff
\* save_interval is non-zero and e is a multiple of save_interval; with
\* save_interval = 0 none is ever written.
C3_CheckpointsPeriodic ==
    /\ \A e \in Completed :
           (\E f \in epoch_files : f.epoch = e)
               <=> (args.save_interval # 0 /\ e % args.save_interval = 0)
    /\ \A f \in epoch_files :
           \E j \in CallsOf("save_params") :
               calls[j].epoch = f.epoch /\ calls[j].map = f.map
    /\ \A f, g \in epoch_files : f.epoch = g.epoch => f = g
    /\ args.save_interval = 0 => epoch_files = {}

C3_Witness ==
    /\ pc = "done"
    /\ args.save_interval = 2
    /\ \E e \in Completed : \E f \in epoch_files : f.epoch = e
    /\ \E e \in Completed : \A f \in epoch_files : f.epoch # e

\* the state part of C4
EpochRangeRespected ==
    /\ IsPrefix(EpochsRun, RangeSeq(args.start_epoch, args.epochs))
    /\ pc = "done" => EpochsRun = RangeSeq(args.start_epoch, args.epochs)
    /\ args.start_epoch >= args.epochs =>
           /\ calls = <<>>
           /\ best_file = {}
           /\ best_log = <<>>
           /\ epoch_files = {}

C5_MixupSchedule ==
    /\ args.mixup =>
           \A j \in Idx :
               calls[j].op \in BatchOps =>
                   calls[j].setting =
                       IF calls[j].epoch >= args.epochs - args.no_mixup_epochs
                       THEN "none" ELSE "beta"
    /\ LET processed == SelectSeq(calls, LAMBDA c : c.op \in BatchOps) IN
       \A j \in 1 .. Len(processed) - 1 :
           processed[j].setting = "none" => processed[j + 1].setting = "none"
    /\ ~args.mixup => (CallsOf("set_mixup") = {} /\ mixup_setting = "unset")

C5_Witness ==
    /\ pc = "done"
    /\ args.mixup
    /\ \E j \in CallsOf("step") : calls[j].setting = "beta"
    /\ \E j \in CallsOf("step") : calls[j].setting = "none"

\* C7: every batch is forward, backward, trainer.step, metric updates in that
\* order; validate() runs only after all batches of its epoch were stepped;
\* save_params() is called exactly once per epoch, after the validation
\* decision, with the mAP of that same epoch.
C7_FixedOrder ==
    /\ \A j \in Idx :
           LET c == calls[j] IN
           /\ c.op = "forward" =>
                  (j > 1 /\ calls[j - 1] = [c EXCEPT !.op = "batch"])
           /\ c.op = "backward" =>
                  (j > 1 /\ calls[j - 1] = [c EXCEPT !.op = "forward"])
           /\ c.op = "step" =>
                  (j > 1 /\ calls[j - 1] = [c EXCEPT !.op = "backward"])
           /\ c.op = "metrics" =>
                  (j > 1 /\ calls[j - 1] = [c EXCEPT !.op = "step"])
           /\ (c.op = "batch" /\ j < Len(calls)) => calls[j + 1].op = "forward"
           /\ (c.op = "step" /\ j < Len(calls)) => calls[j + 1].op = "metrics"
    /\ \A j \in CallsOf("validate") :
           LET e == calls[j].epoch IN
           /\ {calls[s].batch : s \in {t \in CallsIn("step", e) : t < j}}
                  = 0 .. train_len - 1
           /\ \A s \in Idx :
                  (calls[s].op \in BatchOps /\ calls[s].epoch = e) => s < j
    /\ \A e \in Started :
           Cardinality(CallsIn("save_params", e)) = IF e < epoch THEN 1 ELSE 0
    /\ \A j \in CallsOf("save_params") :
           LET e == calls[j].epoch IN
           /\ {calls[s].batch : s \in {t \in CallsIn("metrics", e) : t < j}}
                  = 0 .. train_len - 1
           /\ \A s \in Idx :
                  (calls[s].epoch = e /\ s # j) => s < j
           /\ IF CallsIn("validate", e) # {}
                 THEN calls[j - 1].op = "validate" /\ calls[j - 1].epoch = e
                      /\ calls[j].map = calls[j - 1].map
                 ELSE calls[j].map = 0

C7_Witness ==
    /\ pc = "done"
    /\ train_len >= 2
    /\ Cardinality(Completed) >= 2
    /\ \E j \in CallsOf("validate") : calls[j].map > 0

\* C6: for a manifest of one JSON record per line, the final line with or
\* without a newline, construction succeeds and the dataset holds exactly the
\* records with a non-empty annotation list, in manifest order.
C6_ManifestLoads ==
    LET kept == SelectSeq(manifest_records, LAMBDA r : r.n > 0) IN
    /\ ds_pc # "raised"
    /\ ds_pc = "done" =>
           /\ DatasetLen = Len(kept)
           /\ \A idx \in 1 .. DatasetLen :
                  /\ LabelRows(idx) = kept[idx].n
                  /\ LabelRows(idx) >= 1

====
